---- MODULE Spec2Model ----
(***************************************************************************)
(* Model of the load-test harness                                          *)
(*   src/Digicloset_Update_Pack_All_13/loadtest/gpu_load_test.py           *)
(*                                                                         *)
(* The harness is an asyncio program: one coroutine main() and            *)
(* `concurrency` worker tasks share one event loop.  Exactly one task     *)
(* runs at a time and keeps the loop until it suspends in an await; the   *)
(* variable `running` holds the task that owns the loop.  Every action    *)
(* is one stretch of a task's code between two points of the source.      *)
(***************************************************************************)
EXTENDS Integers, Sequences, FiniteSets, TLC

\* ---------------------------------------------------------------- bounds
MaxConcurrency == 2
MaxTotal == 2

\* t1 - t0 of one request, in abstract time units; the latency decides
\* nothing in the program but the sum printed at line 37
Latencies == {1}

\* HTTP status codes the endpoint may answer with (aiohttp does not raise on
\* a non-2xx status: raise_for_status is left at its default).
Statuses == {200, 204, 302, 500}

\* Exceptions session.post / resp.text() may raise.
Errors == {"ClientError", "TimeoutError"}

NoError == "none"
\* the value None: no item main() puts is None (items are 0, 1, ...)
NoneItem == 0 - 1
NoSummary == [requests |-> 0 - 1, ok |-> 0 - 1, latsum |-> 0 - 1]
NoExit == 0 - 1

VARIABLES
    endpoint,      \* ENDPOINT is truthy (os.getenv gave a non-empty string)
    concurrency,   \* args.concurrency
    total,         \* args.total
    pcMain,        \* position of the module / main()
    running,       \* the task that owns the event loop
    q,             \* asyncio.Queue: the items, oldest first
    unfinished,    \* q._unfinished_tasks
    results,       \* the list `results`: <<status, latency>> pairs
    resultItems,   \* history: image_id of the item behind each entry of results
    wpc,           \* worker task -> its position
    witem,         \* worker task -> image_id of the item it holds
    wstatus,       \* worker task -> the local `status`
    wexc,          \* worker task -> exception it ended with
    cancelReq,     \* worker task -> cancel() was called on it and is pending
    issued,        \* history: number of session.post calls issued
    summary,       \* what line 37 printed
    exitStatus     \* the process's exit status

\* src/backend/app/rbac.py: one call into the module at a time
VARIABLES
    injected,      \* inject_get_current_user(...) has been called
    rpc,           \* position of the call being served
    rkind,         \* which function of rbac.py was called
    rreq,          \* where the wrapped endpoint's Request is: args, kwargs, none
    ruser,         \* the shape of current_user
    rgranted,      \* the database grants the permission to the user
    poolSet,       \* app.db imports and app.db.pool is truthy
    connFrom,      \* history: where the connection in use was obtained
    connPool,      \* the local `pool` is a pool (not None)
    connLive,      \* the connection is held and not yet released
    poolReleases,  \* history: number of pool.release(conn) calls
    closes,        \* history: number of conn.close() calls
    usedAfterRelease, \* history: a query ran on a released connection
    lookups,       \* history: number of queries run
    qraised,       \* the query raised and the exception is propagating
    rstatus,       \* status_code of the HTTPException raised, 0 if none
    rdetail,       \* how the call ended
    endpointInvoked \* the wrapped endpoint fn was called

loadVars == <<endpoint, concurrency, total, pcMain, running, q, unfinished,
              results, resultItems, wpc, witem, wstatus, wexc, cancelReq,
              issued, summary, exitStatus>>

rbacVars == <<injected, rpc, rkind, rreq, ruser, rgranted, poolSet, connFrom,
              connPool, connLive, poolReleases, closes, usedAfterRelease,
              lookups, qraised, rstatus, rdetail, endpointInvoked>>

vars == <<loadVars, rbacVars>>

\* ----------------------------------------------------------------- tasks
MainTask == <<"main">>
Idle == <<"loop">>
WorkerTask(w) == <<"worker", w>>

\* (mutant) one task more than range(concurrency) has elements
TaskIds_OneMore(n) == 1..(n + 1)

\* workers = [create_task(...) for _ in range(concurrency)]
TaskIds(n) == 1..n

Workers == DOMAIN wpc

\* a task that has finished: by an exception, by cancellation, by `break`
DonePcs == {"failed", "cancelled", "returned"}
\* a task that does not own the loop and waits for something
SuspendedPcs == {"created", "waiting", "posting", "reading"}
\* a POST was issued and its Outcome is not yet in `results`
InFlightPcs == {"posting", "reading"}

\* (mutant) cancel() treats every task as done already and requests nothing
Alive_Never(w) == FALSE

Alive(w) == wpc[w] \notin DonePcs

\* -------------------------------------------------------- pure functions
RECURSIVE SumLatency(_)
SumLatency(rs) == IF rs = << >> THEN 0 ELSE rs[1][2] + SumLatency(Tail(rs))

\* (mutant) every 2xx status counted as a success
IsOk_Any2xx(r) == r[1] \in 200..299

IsOk(r) == r[1] = 200

\* ok = [r for r in results if r[0] == 200]
OkResults(rs) == SelectSeq(rs, IsOk)

\* (mutant) the test of lines 9-10 left out
EndpointMissing_Never(e) == FALSE

\* `if not ENDPOINT`
EndpointMissing(e) == ~e

\* (mutant) a join that waits for the queue to be empty, not for the
\* acknowledgements
JoinReturns_OnEmpty(queue, unf) == queue = << >>

\* q.join() returns at once, resp. is woken, when no put item is unacknowledged
JoinReturns(queue, unf) == unf = 0

\* line 26: asyncio.Queue() is built with the default maxsize, 0, which
\* asyncio takes as "no limit"
QueueMaxsize == 0

\* Queue.full(): never true for maxsize <= 0
QueueFull(queue) == QueueMaxsize > 0 /\ Len(queue) >= QueueMaxsize

\* (mutant) get() hands out the oldest item and leaves it in the queue
Popleft_Keep(queue) == queue

\* Queue.get(): the oldest item is taken out of the queue
Popleft(queue) == Tail(queue)

\* (mutant) the Outcome is not appended
RecordOutcome_Skip(rs, s, lat) == rs

\* line 22: results.append((status, t1-t0))
RecordOutcome(rs, s, lat) == Append(rs, <<s, lat>>)

\* `if item is None`
IsNone(item) == item = NoneItem

\* rbac.py imported, nothing called yet
RbacIdle ==
    /\ injected = FALSE
    /\ rpc = "idle"
    /\ rkind = "none"
    /\ rreq = "none"
    /\ ruser = "none"
    /\ rgranted = FALSE
    /\ poolSet = FALSE
    /\ connFrom = "none"
    /\ connPool = FALSE
    /\ connLive = FALSE
    /\ poolReleases = 0
    /\ closes = 0
    /\ usedAfterRelease = FALSE
    /\ lookups = 0
    /\ qraised = FALSE
    /\ rstatus = 0
    /\ rdetail = "none"
    /\ endpointInvoked = FALSE

\* ------------------------------------------------------------------ Init
Init ==
    /\ RbacIdle
    /\ endpoint \in BOOLEAN
    /\ concurrency \in 0..MaxConcurrency
    /\ total \in 0..MaxTotal
    /\ pcMain = "load"
    /\ running = MainTask
    /\ q = << >>
    /\ unfinished = 0
    /\ results = << >>
    /\ resultItems = << >>
    /\ wpc = << >>
    /\ witem = << >>
    /\ wstatus = << >>
    /\ wexc = << >>
    /\ cancelReq = << >>
    /\ issued = 0
    /\ summary = NoSummary
    /\ exitStatus = NoExit

\* ----------------------------------------------------- module and main()
\* lines 7-10: load_dotenv, ENDPOINT, raise SystemExit(<message>) (status 1)
Load ==
    /\ pcMain = "load" /\ running = MainTask
    /\ IF EndpointMissing(endpoint)
         THEN /\ pcMain' = "exited"
              /\ exitStatus' = 1
              /\ running' = Idle
         ELSE /\ pcMain' = "fill"
              /\ UNCHANGED <<exitStatus, running>>
    /\ UNCHANGED <<endpoint, concurrency, total, q, unfinished, results,
                   resultItems, wpc, witem, wstatus, wexc, cancelReq, issued,
                   summary>>
    /\ UNCHANGED rbacVars

\* lines 26-29, one iteration: q.put_nowait({'image_id': i, ...});
\* put_nowait never waits (it would raise QueueFull on a full queue, which
\* a queue without limit never is)
MainPut ==
    /\ pcMain = "fill" /\ running = MainTask
    /\ Len(q) < total
    /\ ~QueueFull(q)
    /\ q' = Append(q, Len(q))
    /\ unfinished' = unfinished + 1
    /\ UNCHANGED <<endpoint, concurrency, total, pcMain, running, results,
                   resultItems, wpc, witem, wstatus, wexc, cancelReq, issued,
                   summary, exitStatus>>
    /\ UNCHANGED rbacVars

\* lines 30-32: the loop over range(total) is over; open the session,
\* results = [], create the worker tasks (created, not yet started)
MainSpawn ==
    /\ pcMain = "fill" /\ running = MainTask
    /\ Len(q) >= total
    /\ pcMain' = "join"
    /\ wpc' = [w \in TaskIds(concurrency) |-> "created"]
    /\ witem' = [w \in TaskIds(concurrency) |-> NoneItem]
    /\ wstatus' = [w \in TaskIds(concurrency) |-> 0]
    /\ wexc' = [w \in TaskIds(concurrency) |-> NoError]
    /\ cancelReq' = [w \in TaskIds(concurrency) |-> FALSE]
    /\ results' = << >>
    /\ UNCHANGED <<endpoint, concurrency, total, running, q, unfinished,
                   resultItems, issued, summary, exitStatus>>
    /\ UNCHANGED rbacVars

\* line 33: await q.join(); returns without suspending when nothing is
\* unfinished, else main suspends on the queue's _finished event
MainJoin ==
    /\ pcMain = "join" /\ running = MainTask
    /\ IF JoinReturns(q, unfinished)
         THEN pcMain' = "cancel" /\ running' = MainTask
         ELSE pcMain' = "joinwait" /\ running' = Idle
    /\ UNCHANGED <<endpoint, concurrency, total, q, unfinished, results,
                   resultItems, wpc, witem, wstatus, wexc, cancelReq, issued,
                   summary, exitStatus>>
    /\ UNCHANGED rbacVars

\* line 33, resumed: task_done() set _finished, the loop runs main again
MainWake ==
    /\ pcMain = "joinwait" /\ running = Idle
    /\ JoinReturns(q, unfinished)
    /\ pcMain' = "cancel"
    /\ running' = MainTask
    /\ UNCHANGED <<endpoint, concurrency, total, q, unfinished, results,
                   resultItems, wpc, witem, wstatus, wexc, cancelReq, issued,
                   summary, exitStatus>>
    /\ UNCHANGED rbacVars

\* lines 34-35: for w in workers: w.cancel().  cancel() only requests the
\* cancellation of a task that is not done; the task ends when the loop
\* next runs it.
MainCancel ==
    /\ pcMain = "cancel" /\ running = MainTask
    /\ cancelReq' = [w \in Workers |-> Alive(w)]
    /\ pcMain' = "close"
    /\ UNCHANGED <<endpoint, concurrency, total, running, q, unfinished,
                   results, resultItems, wpc, witem, wstatus, wexc, issued,
                   summary, exitStatus>>
    /\ UNCHANGED rbacVars

\* line 30, __aexit__: await session.close().  Whether the close suspends
\* main depends on the aiohttp build (a no-op awaitable, or a gather over
\* the transports being closed): both outcomes are modelled.
MainClose ==
    /\ pcMain = "close" /\ running = MainTask
    /\ \/ pcMain' = "summary" /\ running' = MainTask
       \/ pcMain' = "closewait" /\ running' = Idle
    /\ UNCHANGED <<endpoint, concurrency, total, q, unfinished, results,
                   resultItems, wpc, witem, wstatus, wexc, cancelReq, issued,
                   summary, exitStatus>>
    /\ UNCHANGED rbacVars

MainCloseResume ==
    /\ pcMain = "closewait" /\ running = Idle
    /\ pcMain' = "summary"
    /\ running' = MainTask
    /\ UNCHANGED <<endpoint, concurrency, total, q, unfinished, results,
                   resultItems, wpc, witem, wstatus, wexc, cancelReq, issued,
                   summary, exitStatus>>
    /\ UNCHANGED rbacVars

\* lines 36-37: ok = [...]; print(... sum(...)/len(results) ...).
\* len(results) = 0 raises ZeroDivisionError out of main().
MainSummary ==
    /\ pcMain = "summary" /\ running = MainTask
    /\ IF Len(results) = 0
         THEN /\ pcMain' = "crashed"
              /\ UNCHANGED summary
         ELSE /\ pcMain' = "done"
              /\ summary' = [requests |-> Len(results),
                             ok |-> Len(OkResults(results)),
                             latsum |-> SumLatency(results)]
    /\ running' = Idle
    /\ UNCHANGED <<endpoint, concurrency, total, q, unfinished, results,
                   resultItems, wpc, witem, wstatus, wexc, cancelReq, issued,
                   exitStatus>>
    /\ UNCHANGED rbacVars

\* line 44: asyncio.run, after main() returned or raised, cancels every task
\* that is still pending and runs the loop until they have ended
RunShutdown ==
    /\ pcMain \in {"done", "crashed"} /\ running = Idle
    /\ pcMain' = IF pcMain = "done" THEN "shutdown" ELSE "shutdownErr"
    /\ cancelReq' = [w \in Workers |-> Alive(w)]
    /\ UNCHANGED <<endpoint, concurrency, total, running, q, unfinished,
                   results, resultItems, wpc, witem, wstatus, wexc, issued,
                   summary, exitStatus>>
    /\ UNCHANGED rbacVars

\* line 44: asyncio.run returns (status 0) or re-raises ZeroDivisionError
\* (traceback, status 1)
RunExit ==
    /\ pcMain \in {"shutdown", "shutdownErr"} /\ running = Idle
    /\ \A w \in Workers : ~Alive(w)
    /\ exitStatus' = IF pcMain = "shutdown" THEN 0 ELSE 1
    /\ pcMain' = "exited"
    /\ UNCHANGED <<endpoint, concurrency, total, running, q, unfinished,
                   results, resultItems, wpc, witem, wstatus, wexc, cancelReq,
                   issued, summary>>
    /\ UNCHANGED rbacVars

\* --------------------------------------------------------------- worker()
\* the loop runs a created task for the first time: line 13
WorkerStart(w) ==
    /\ running = Idle
    /\ wpc[w] = "created" /\ ~cancelReq[w]
    /\ wpc' = [wpc EXCEPT ![w] = "get"]
    /\ running' = WorkerTask(w)
    /\ UNCHANGED <<endpoint, concurrency, total, pcMain, q, unfinished,
                   results, resultItems, witem, wstatus, wexc, cancelReq,
                   issued, summary, exitStatus>>
    /\ UNCHANGED rbacVars

\* lines 14-16: item = await q.get().  An empty queue suspends the worker on
\* a getter future; otherwise get() returns the oldest item without
\* suspending; an item that is None ends the loop (break).
WorkerGet(w) ==
    /\ running = WorkerTask(w)
    /\ wpc[w] = "get"
    /\ IF q = << >>
         THEN /\ wpc' = [wpc EXCEPT ![w] = "waiting"]
              /\ running' = Idle
              /\ UNCHANGED <<q, witem>>
         ELSE /\ witem' = [witem EXCEPT ![w] = Head(q)]
              /\ q' = Popleft(q)
              /\ IF IsNone(Head(q))
                   THEN /\ wpc' = [wpc EXCEPT ![w] = "returned"]
                        /\ running' = Idle
                   ELSE /\ wpc' = [wpc EXCEPT ![w] = "post"]
                        /\ UNCHANGED running
    /\ UNCHANGED <<endpoint, concurrency, total, pcMain, unfinished, results,
                   resultItems, wstatus, wexc, cancelReq, issued, summary,
                   exitStatus>>
    /\ UNCHANGED rbacVars

\* lines 17-18: t0 = time.time(); session.post(ENDPOINT, json=item) is
\* issued and the worker suspends until the response head arrives
WorkerPost(w) ==
    /\ running = WorkerTask(w)
    /\ wpc[w] = "post"
    /\ wpc' = [wpc EXCEPT ![w] = "posting"]
    /\ issued' = issued + 1
    /\ running' = Idle
    /\ UNCHANGED <<endpoint, concurrency, total, pcMain, q, unfinished,
                   results, resultItems, witem, wstatus, wexc, cancelReq,
                   summary, exitStatus>>
    /\ UNCHANGED rbacVars

\* lines 18-20: the response head arrives with any status; status =
\* resp.status; the worker suspends again in await resp.text()
HttpResponse(w, s) ==
    /\ running = Idle
    /\ wpc[w] = "posting" /\ ~cancelReq[w]
    /\ wstatus' = [wstatus EXCEPT ![w] = s]
    /\ wpc' = [wpc EXCEPT ![w] = "reading"]
    /\ UNCHANGED <<endpoint, concurrency, total, pcMain, running, q,
                   unfinished, results, resultItems, witem, wexc, cancelReq,
                   issued, summary, exitStatus>>
    /\ UNCHANGED rbacVars

\* lines 18-20: session.post or resp.text() raises (connection error,
\* timeout).  Nothing in worker() catches it: the task ends with the
\* exception, lines 21-23 are skipped.
HttpRaise(w, e) ==
    /\ running = Idle
    /\ wpc[w] \in {"posting", "reading"} /\ ~cancelReq[w]
    /\ wexc' = [wexc EXCEPT ![w] = e]
    /\ wpc' = [wpc EXCEPT ![w] = "failed"]
    /\ UNCHANGED <<endpoint, concurrency, total, pcMain, running, q,
                   unfinished, results, resultItems, witem, wstatus,
                   cancelReq, issued, summary, exitStatus>>
    /\ UNCHANGED rbacVars

\* lines 20-22: the body is read; t1 = time.time();
\* results.append((status, t1-t0))
HttpBody(w, lat) ==
    /\ running = Idle
    /\ wpc[w] = "reading" /\ ~cancelReq[w]
    /\ results' = RecordOutcome(results, wstatus[w], lat)
    /\ resultItems' = Append(resultItems, witem[w])
    /\ wpc' = [wpc EXCEPT ![w] = "ack"]
    /\ running' = WorkerTask(w)
    /\ UNCHANGED <<endpoint, concurrency, total, pcMain, q, unfinished,
                   witem, wstatus, wexc, cancelReq, issued, summary,
                   exitStatus>>
    /\ UNCHANGED rbacVars

\* line 23: q.task_done(), then back to line 13
WorkerTaskDone(w) ==
    /\ running = WorkerTask(w)
    /\ wpc[w] = "ack"
    /\ unfinished' = unfinished - 1
    /\ wpc' = [wpc EXCEPT ![w] = "get"]
    /\ UNCHANGED <<endpoint, concurrency, total, pcMain, running, q, results,
                   resultItems, witem, wstatus, wexc, cancelReq, issued,
                   summary, exitStatus>>
    /\ UNCHANGED rbacVars

\* a task whose cancellation was requested is run by the loop:
\* CancelledError is thrown into it at its await and ends it
WorkerCancelled(w) ==
    /\ running = Idle
    /\ cancelReq[w] /\ wpc[w] \in SuspendedPcs
    /\ wpc' = [wpc EXCEPT ![w] = "cancelled"]
    /\ cancelReq' = [cancelReq EXCEPT ![w] = FALSE]
    /\ UNCHANGED <<endpoint, concurrency, total, pcMain, running, q,
                   unfinished, results, resultItems, witem, wstatus, wexc,
                   issued, summary, exitStatus>>
    /\ UNCHANGED rbacVars

\* ------------------------------------------------------------------ Next
MainStep ==
    \/ Load
    \/ MainPut
    \/ MainSpawn
    \/ MainJoin
    \/ MainWake
    \/ MainCancel
    \/ MainClose
    \/ MainCloseResume
    \/ MainSummary
    \/ RunShutdown
    \/ RunExit

WorkerStep ==
    \/ \E w \in Workers : WorkerStart(w)
    \/ \E w \in Workers : WorkerGet(w)
    \/ \E w \in Workers : WorkerPost(w)
    \/ \E w \in Workers, s \in Statuses : HttpResponse(w, s)
    \/ \E w \in Workers, e \in Errors : HttpRaise(w, e)
    \/ \E w \in Workers, lat \in Latencies : HttpBody(w, lat)
    \/ \E w \in Workers : WorkerTaskDone(w)
    \/ \E w \in Workers : WorkerCancelled(w)

Next == MainStep \/ WorkerStep

Spec == Init /\ [][Next]_vars

\* Every HTTP call ends and the event loop keeps running ready tasks.
FairSpec == Spec /\ WF_vars(Next)

(***************************************************************************)
(* src/backend/app/rbac.py: the permission lookups, the dependency         *)
(* factory and the decorator.  One call is served at a time; its inputs    *)
(* (entry point, arguments, shape of current_user, database content and    *)
(* availability) are chosen when the call starts.                          *)
(***************************************************************************)
\* entry points of the module
RbacKinds == {"require_permission", "wrapper", "decorator", "roles", "perm"}

\* the wrapped endpoint received its Request positionally, as the keyword
\* `request`, or not at all
RequestPlaces == {"args", "kwargs", "none"}

\* current_user: None, an empty dict, an object or a dict with a truthy id,
\* an object or a dict without one
UserKinds == {"none", "emptydict", "obj_id", "obj_noid", "dict_id", "dict_noid"}

\* `not current_user` is false
UserTruthy(u) == u \notin {"none", "emptydict"}

IsDict(u) == u \in {"emptydict", "dict_id", "dict_noid"}

\* the user_id the id expressions of lines 93 and 133 evaluate to is truthy
HasUserId(u) == u \in {"obj_id", "dict_id"}

\* (mutant) the user id test of lines 134-135 left out
DecoratorPrecheck_NoIdTest(req, u) ==
    IF req = "none"
      THEN [status |-> 500, detail |-> "No Request found for RBAC check"]
    ELSE IF ~UserTruthy(u)
      THEN [status |-> 401, detail |-> "Not authenticated"]
    ELSE [status |-> 0, detail |-> "pass"]

\* lines 120-135: the tests wrapped() makes before the permission lookup
DecoratorPrecheck(req, u) ==
    IF req = "none"
      THEN [status |-> 500, detail |-> "No Request found for RBAC check"]
    ELSE IF ~UserTruthy(u)
      THEN [status |-> 401, detail |-> "Not authenticated"]
    ELSE IF ~HasUserId(u)
      THEN [status |-> 401, detail |-> "Invalid user"]
    ELSE [status |-> 0, detail |-> "pass"]

\* lines 91-95: the tests _dep makes before the permission lookup;
\* current_user.get on an object that is no dict raises AttributeError
DepPrecheck(u) ==
    IF u = "none"
      THEN [status |-> 401, detail |-> "Not authenticated"]
    ELSE IF HasUserId(u)
      THEN [status |-> 0, detail |-> "pass"]
    ELSE IF ~IsDict(u)
      THEN [status |-> 0, detail |-> "AttributeError"]
    ELSE [status |-> 401, detail |-> "Invalid user object"]

\* (mutant) the release written after the query instead of in `finally`
QueryExit_NoFinally(raised) == IF raised THEN "raise" ELSE "release"

\* lines 39-46, 57-67: try ... finally: the release runs whether the query
\* returned or raised
QueryExit(raised) == "release"

\* inject_get_current_user (lines 83-102) builds and returns _wrap; it
\* assigns nothing in the module, so require_permission stays as defined
\* at lines 70-80
Inject ==
    /\ rpc = "idle" /\ ~injected
    /\ injected' = TRUE
    /\ UNCHANGED <<rpc, rkind, rreq, ruser, rgranted, poolSet, connFrom,
                   connPool, connLive, poolReleases, closes,
                   usedAfterRelease, lookups, qraised, rstatus, rdetail,
                   endpointInvoked>>
    /\ UNCHANGED loadVars

\* a call enters the module.  "wrapper" is a dependency made by the
\* function inject_get_current_user(...)(require_permission), which exists
\* only once inject_get_current_user was called.
RbacCall(kind, req, u, granted, pool) ==
    /\ rpc = "idle"
    /\ kind = "wrapper" => injected
    /\ rpc' = "enter"
    /\ rkind' = kind
    /\ rreq' = req
    /\ ruser' = u
    /\ rgranted' = granted
    /\ poolSet' = pool
    /\ UNCHANGED <<injected, connFrom, connPool, connLive, poolReleases,
                   closes, usedAfterRelease, lookups, qraised, rstatus,
                   rdetail, endpointInvoked>>
    /\ UNCHANGED loadVars

\* lines 76-78: the dependency require_permission(p) returns
DepPlaceholder ==
    /\ rpc = "enter" /\ rkind = "require_permission"
    /\ rstatus' = 500
    /\ rdetail' = "RBAC dependency not initialized"
    /\ rpc' = "done"
    /\ UNCHANGED <<injected, rkind, rreq, ruser, rgranted, poolSet, connFrom,
                   connPool, connLive, poolReleases, closes,
                   usedAfterRelease, lookups, qraised, endpointInvoked>>
    /\ UNCHANGED loadVars

\* lines 90-96: _dep up to the call of user_has_permission
DepWrapped ==
    /\ rpc = "enter" /\ rkind = "wrapper"
    /\ LET c == DepPrecheck(ruser) IN
         IF c.detail = "pass"
           THEN rpc' = "getconn" /\ UNCHANGED <<rstatus, rdetail>>
           ELSE /\ rpc' = "done"
                /\ rstatus' = c.status
                /\ rdetail' = c.detail
    /\ UNCHANGED <<injected, rkind, rreq, ruser, rgranted, poolSet, connFrom,
                   connPool, connLive, poolReleases, closes,
                   usedAfterRelease, lookups, qraised, endpointInvoked>>
    /\ UNCHANGED loadVars

\* lines 118-136: wrapped() up to the call of user_has_permission
DecoratorEnter ==
    /\ rpc = "enter" /\ rkind = "decorator"
    /\ LET c == DecoratorPrecheck(rreq, ruser) IN
         IF c.detail = "pass"
           THEN rpc' = "getconn" /\ UNCHANGED <<rstatus, rdetail>>
           ELSE /\ rpc' = "done"
                /\ rstatus' = c.status
                /\ rdetail' = c.detail
    /\ UNCHANGED <<injected, rkind, rreq, ruser, rgranted, poolSet, connFrom,
                   connPool, connLive, poolReleases, closes,
                   usedAfterRelease, lookups, qraised, endpointInvoked>>
    /\ UNCHANGED loadVars

\* lines 37-38, 52-56: get_roles_for_user / user_has_permission called
\* directly
LookupEnter ==
    /\ rpc = "enter" /\ rkind \in {"roles", "perm"}
    /\ rpc' = "getconn"
    /\ UNCHANGED <<injected, rkind, rreq, ruser, rgranted, poolSet, connFrom,
                   connPool, connLive, poolReleases, closes,
                   usedAfterRelease, lookups, qraised, rstatus, rdetail,
                   endpointInvoked>>
    /\ UNCHANGED loadVars

\* lines 11-28: _get_conn.  With a pool, pool.acquire() gives (conn, pool);
\* an exception of the import or of acquire() is swallowed (lines 23-24)
\* and, as without a pool, asyncpg.connect gives (conn, None) or raises out
\* of the caller before its try block.
GetConn(acquireOk, connectOk) ==
    /\ rpc = "getconn"
    /\ IF poolSet /\ acquireOk
         THEN /\ connFrom' = "pool"
              /\ connPool' = TRUE
              /\ connLive' = TRUE
              /\ rpc' = "query"
              /\ UNCHANGED rdetail
         ELSE IF connectOk
           THEN /\ connFrom' = "oneoff"
                /\ connPool' = FALSE
                /\ connLive' = TRUE
                /\ rpc' = "query"
                /\ UNCHANGED rdetail
           ELSE /\ rpc' = "done"
                /\ rdetail' = "DBError"
                /\ UNCHANGED <<connFrom, connPool, connLive>>
    /\ UNCHANGED <<injected, rkind, rreq, ruser, rgranted, poolSet,
                   poolReleases, closes, usedAfterRelease, lookups, qraised,
                   rstatus, endpointInvoked>>
    /\ UNCHANGED loadVars

\* lines 40-44, 58-65: conn.fetch / conn.fetchrow returns or raises
Query(ok) ==
    /\ rpc = "query"
    /\ lookups' = lookups + 1
    /\ usedAfterRelease' = (usedAfterRelease \/ ~connLive)
    /\ qraised' = ~ok
    /\ rpc' = QueryExit(~ok)
    /\ UNCHANGED <<injected, rkind, rreq, ruser, rgranted, poolSet, connFrom,
                   connPool, connLive, poolReleases, closes, rstatus, rdetail,
                   endpointInvoked>>
    /\ UNCHANGED loadVars

\* lines 30-34, 45-46, 66-67: _release_conn(conn, pool)
Release ==
    /\ rpc = "release"
    /\ IF connPool
         THEN poolReleases' = poolReleases + 1 /\ UNCHANGED closes
         ELSE closes' = closes + 1 /\ UNCHANGED poolReleases
    /\ connLive' = FALSE
    /\ rpc' = IF qraised THEN "raise" ELSE "return"
    /\ UNCHANGED <<injected, rkind, rreq, ruser, rgranted, poolSet, connFrom,
                   connPool, usedAfterRelease, lookups, qraised, rstatus,
                   rdetail, endpointInvoked>>
    /\ UNCHANGED loadVars

\* the query's exception leaves the lookup and its caller
LookupRaise ==
    /\ rpc = "raise"
    /\ rdetail' = "DBError"
    /\ rpc' = "done"
    /\ UNCHANGED <<injected, rkind, rreq, ruser, rgranted, poolSet, connFrom,
                   connPool, connLive, poolReleases, closes,
                   usedAfterRelease, lookups, qraised, rstatus,
                   endpointInvoked>>
    /\ UNCHANGED loadVars

\* lines 44, 65: the lookup returns; lines 96-99 (_dep) and 136-138
\* (wrapped) act on the answer
LookupReturn ==
    /\ rpc = "return"
    /\ IF rkind \in {"roles", "perm"}
         THEN /\ rdetail' = "returned"
              /\ rpc' = "done"
              /\ UNCHANGED rstatus
         ELSE IF ~rgranted
           THEN /\ rstatus' = 403
                /\ rdetail' = "Permission denied"
                /\ rpc' = "done"
         ELSE IF rkind = "wrapper"
           THEN /\ rdetail' = "True"
                /\ rpc' = "done"
                /\ UNCHANGED rstatus
           ELSE /\ rpc' = "endpoint"
                /\ UNCHANGED <<rstatus, rdetail>>
    /\ UNCHANGED <<injected, rkind, rreq, ruser, rgranted, poolSet, connFrom,
                   connPool, connLive, poolReleases, closes,
                   usedAfterRelease, lookups, qraised, endpointInvoked>>
    /\ UNCHANGED loadVars

\* line 138: return await fn(*args, **kwargs)
Endpoint ==
    /\ rpc = "endpoint"
    /\ endpointInvoked' = TRUE
    /\ rdetail' = "endpoint"
    /\ rpc' = "done"
    /\ UNCHANGED <<injected, rkind, rreq, ruser, rgranted, poolSet, connFrom,
                   connPool, connLive, poolReleases, closes,
                   usedAfterRelease, lookups, qraised, rstatus>>
    /\ UNCHANGED loadVars

\* the call is over, its locals and the history kept of it are dropped;
\* the module serves the next call
RbacFinish ==
    /\ rpc = "done"
    /\ rpc' = "idle"
    /\ rkind' = "none"
    /\ rreq' = "none"
    /\ ruser' = "none"
    /\ rgranted' = FALSE
    /\ poolSet' = FALSE
    /\ connFrom' = "none"
    /\ connPool' = FALSE
    /\ connLive' = FALSE
    /\ poolReleases' = 0
    /\ closes' = 0
    /\ usedAfterRelease' = FALSE
    /\ lookups' = 0
    /\ qraised' = FALSE
    /\ rstatus' = 0
    /\ rdetail' = "none"
    /\ endpointInvoked' = FALSE
    /\ UNCHANGED injected
    /\ UNCHANGED loadVars

\* the harness not started
LoadIdle ==
    /\ endpoint = FALSE
    /\ concurrency = 0
    /\ total = 0
    /\ pcMain = "load"
    /\ running = MainTask
    /\ q = << >>
    /\ unfinished = 0
    /\ results = << >>
    /\ resultItems = << >>
    /\ wpc = << >>
    /\ witem = << >>
    /\ wstatus = << >>
    /\ wexc = << >>
    /\ cancelReq = << >>
    /\ issued = 0
    /\ summary = NoSummary
    /\ exitStatus = NoExit

RbacInit == LoadIdle /\ RbacIdle

RbacNext ==
    \/ Inject
    \/ \E kind \in RbacKinds, req \in RequestPlaces, u \in UserKinds,
          granted \in BOOLEAN, pool \in BOOLEAN :
            RbacCall(kind, req, u, granted, pool)
    \/ DepPlaceholder
    \/ DepWrapped
    \/ DecoratorEnter
    \/ LookupEnter
    \/ \E acquireOk \in BOOLEAN, connectOk \in BOOLEAN :
            GetConn(acquireOk, connectOk)
    \/ \E ok \in BOOLEAN : Query(ok)
    \/ Release
    \/ LookupRaise
    \/ LookupReturn
    \/ Endpoint
    \/ RbacFinish

RbacSpec == RbacInit /\ [][RbacNext]_vars

\* ================================================================ claims
\* the set of image_ids an Outcome was recorded for
RecordedItems == {resultItems[k] : k \in 1..Len(resultItems)}

\* main() has come to line 36 (the summary) or beyond
AtOrPastSummary ==
    pcMain \in {"summary", "done", "crashed", "shutdown", "shutdownErr"}

\* the run hangs: main() is suspended in q.join() with unacknowledged items
\* and no task is left that could acknowledge one
Hung ==
    /\ pcMain = "joinwait" /\ running = Idle
    /\ unfinished > 0
    /\ \A w \in Workers : wpc[w] \in {"waiting", "failed"}

\* C1: with concurrency >= 1, when the summary is computed `results` holds
\* exactly `total` Outcomes, one for each item 0..total-1 (none lost, none
\* twice), whatever the endpoint answered.
C1_OutcomesEqualTotal ==
    (concurrency >= 1 /\ AtOrPastSummary) =>
        /\ Len(results) = total
        /\ Len(resultItems) = total
        /\ RecordedItems = 0..(total - 1)

C1_Witness ==
    /\ pcMain = "summary"
    /\ concurrency >= 2 /\ total >= 2
    /\ Len(results) = total
    /\ \E j, k \in 1..Len(results) : results[j][1] = 200 /\ results[k][1] # 200

\* C2: a failure of one request (an exception of the HTTP call, a non-2xx
\* status) never leaves the worker loop: no worker task ever ends with an
\* exception.
C2_FailureStaysInLoop ==
    \A w \in Workers : wexc[w] = NoError /\ wpc[w] # "failed"

\* C3: when every HTTP call ends (by a response, an error or a timeout), a
\* run with a configured endpoint and concurrency >= 1 eventually
\* terminates: q.join() returns, the workers are stopped and the process
\* exits.
C3_RunTerminates ==
    (endpoint /\ concurrency >= 1) => <>(pcMain = "exited")

\* C4: a run with total = 0 and concurrency >= 1 does not end in an error:
\* it never raises out of the summary and exits with status 0 and a summary
\* of 0 requests, 0 ok.
C4_ZeroTotalSummary ==
    (endpoint /\ total = 0 /\ concurrency >= 1) =>
        /\ pcMain \notin {"crashed", "shutdownErr"}
        /\ pcMain = "exited" =>
              /\ exitStatus = 0
              /\ summary.requests = 0 /\ summary.ok = 0

\* C5: a run with concurrency <= 0 never fills the queue, never creates a
\* worker and never waits in q.join().
C5_NonPositiveConcurrencyFailsFast ==
    concurrency <= 0 =>
        /\ q = << >>
        /\ pcMain \notin {"join", "joinwait"}

\* C6: with ENDPOINT absent or empty nothing is put in the queue, no worker
\* task is created, no request is issued, and the process exits with a
\* non-zero status.
C6_MissingEndpointExits ==
    ~endpoint =>
        /\ pcMain \in {"load", "exited"}
        /\ q = << >> /\ unfinished = 0
        /\ Workers = {}
        /\ issued = 0
        /\ pcMain = "exited" => exitStatus >= 1

C6_Witness ==
    ~endpoint /\ pcMain = "exited" /\ exitStatus = 1 /\ total >= 1
        /\ concurrency >= 1

\* C7: with concurrency > total at most `total` requests are issued, exactly
\* `total` when the summary is reached, and the run never hangs.
C7_SurplusWorkersNoDeadlock ==
    (endpoint /\ concurrency > total) =>
        /\ issued <= total
        /\ AtOrPastSummary => issued = total
        /\ ~Hung

\* C8: the number of requests issued whose Outcome is not recorded is at
\* most `concurrency`; with concurrency = 1 a request is issued only when
\* every request issued before it has its Outcome in `results`.
C8_InFlightBounded ==
    /\ issued - Len(results) <= concurrency
    /\ Cardinality({w \in Workers : wpc[w] \in InFlightPcs}) <= concurrency
    /\ concurrency = 1 =>
          \A w \in Workers :
              /\ wpc[w] = "post" => Len(results) = issued
              /\ wpc[w] \in InFlightPcs => Len(results) = issued - 1

C8_Witness ==
    /\ concurrency = 1
    /\ issued = 2 /\ Len(results) = 1
    /\ \E w \in Workers : wpc[w] = "posting"

\* C9: the summary is computed only when every worker task has ended.
C9_SummaryAfterWorkersExit ==
    pcMain = "summary" => \A w \in Workers : ~Alive(w)

\* C10: a worker task ends only by leaving its loop at the close signal
\* (get() gave None); it never ends cancelled or with an exception.
C10_WorkerExitsOnlyOnClose ==
    \A w \in Workers : ~Alive(w) => wpc[w] = "returned"

\* C11 (as claimed): when main() is about to cancel the workers, every live
\* worker is suspended in q.get() waiting for an item.
C11_LiveWorkersWaitAtCancel ==
    pcMain = "cancel" =>
        \A w \in Workers : wpc[w] \notin DonePcs => wpc[w] = "waiting"

\* C11 (amended): no request is cancelled between being issued and being
\* recorded: when main() is about to cancel the workers, and whenever a
\* cancellation is pending, the worker is suspended in q.get() or has not
\* started running yet.
C11_NoMidFlightCancel ==
    /\ pcMain = "cancel" =>
          \A w \in Workers :
              wpc[w] \notin DonePcs => wpc[w] \in {"waiting", "created"}
    /\ \A w \in Workers : cancelReq[w] => wpc[w] \in {"waiting", "created"}

C11_Witness ==
    /\ pcMain = "close"
    /\ total >= 2 /\ concurrency >= 2
    /\ issued = total /\ Len(results) = total
    /\ \A w \in Workers : cancelReq[w] /\ wpc[w] = "waiting"

\* C12: whenever the queue holds items, it has a fixed positive capacity
\* (one that does not grow with `total`) and holds no more items than that.
C12_QueueBounded ==
    q # << >> =>
        /\ QueueMaxsize >= 1
        /\ Len(q) <= QueueMaxsize

\* C13: the summary's total is the number of recorded Outcomes and its
\* success count is the number of Outcomes with status 200, no other status
\* counting; when item i is answered 200 for even i and 500 for odd i, the
\* summary has total = `total` and success = the number of even i < total.
C13_SummaryCounts ==
    summary # NoSummary =>
        /\ summary.requests = Len(results)
        /\ summary.ok =
              Cardinality({k \in 1..Len(results) : results[k][1] = 200})
        /\ (\A k \in 1..Len(results) :
                results[k][1] = IF resultItems[k] % 2 = 0 THEN 200 ELSE 500)
              => /\ summary.requests = total
                 /\ summary.ok = (total + 1) \div 2

C13_Witness ==
    /\ summary # NoSummary
    /\ total = 2
    /\ \A k \in 1..Len(results) :
          results[k][1] = IF resultItems[k] % 2 = 0 THEN 200 ELSE 500
    /\ summary.requests = 2 /\ summary.ok = 1

\* C14: the summary of a complete run is a function of `total` and of the
\* endpoint's answers alone: for every function f from items to statuses,
\* a run in which each item i was answered f[i] reports total = `total`
\* and success = the number of items with f[i] = 200, whatever the order in
\* which the workers ran; so two such runs report the same counts.
C14_SummaryDeterministic ==
    summary # NoSummary =>
        \A f \in [0..(MaxTotal - 1) -> Statuses] :
            (\A k \in 1..Len(results) : results[k][1] = f[resultItems[k]])
                => /\ summary.requests = total
                   /\ summary.ok =
                        Cardinality({i \in 0..(total - 1) : f[i] = 200})

C14_Witness ==
    /\ summary # NoSummary
    /\ concurrency = 2 /\ total = 2
    /\ resultItems = <<1, 0>>
    /\ results[1][1] = 500 /\ results[2][1] = 200
    /\ summary.ok = 1

\* the last item's Outcome is recorded and acknowledged
LastItemProcessed ==
    /\ Workers # {}
    /\ total >= 1
    /\ unfinished = 0
    /\ Len(results) = total

\* C15: once the last item is processed, every worker task eventually ends.
C15_WorkersEndAfterLastItem ==
    LastItemProcessed ~> (\A w \in Workers : wpc[w] \in DonePcs)

C15_Witness ==
    /\ LastItemProcessed
    /\ pcMain = "joinwait"
    /\ concurrency = 2
    /\ \A w \in Workers : wpc[w] = "waiting"

\* the workers that hold a dequeued item whose Outcome is not yet recorded
Holding == {w \in Workers : wpc[w] \in {"post", "posting", "reading"}}

\* C17: no item is recorded twice, every recorded item is one of
\* 0..total-1, and an item held by a worker is held by no other worker, is
\* no longer in the queue and has no Outcome yet.
C17_ItemsOnce ==
    /\ \A j, k \in 1..Len(resultItems) :
          resultItems[j] = resultItems[k] => j = k
    /\ RecordedItems \subseteq 0..(total - 1)
    /\ \A v, w \in Holding : witem[v] = witem[w] => v = w
    /\ \A w \in Holding :
          /\ witem[w] \notin RecordedItems
          /\ witem[w] \notin {q[k] : k \in 1..Len(q)}

C17_Witness ==
    /\ concurrency = 2 /\ total = 2
    /\ Workers = {1, 2}
    /\ wpc[1] = "posting" /\ wpc[2] = "posting"
    /\ witem[1] # witem[2]

\* the number of put_nowait calls made so far
PutCount ==
    IF pcMain \in {"load", "fill"} \/ ~endpoint THEN Len(q) ELSE total

\* the number of task_done() calls made so far
Acks == PutCount - unfinished

\* C18: task_done() was never called more often than Outcomes were
\* appended, and when q.join() has returned every item 0..total-1 has an
\* Outcome.
C18_AcksAtMostOutcomes ==
    /\ Acks <= Len(results)
    /\ pcMain = "cancel" => RecordedItems = 0..(total - 1)

C18_Witness ==
    /\ total = 2
    /\ \E w \in Workers : wpc[w] = "ack"
    /\ Len(results) = 2 /\ Acks = 1

\* C16: once inject_get_current_user was called, a dependency obtained from
\* require_permission(p) does not end with 500 "RBAC dependency not
\* initialized": it ends with 401 for a missing user or user id, with 403
\* when the permission is not granted and returns True otherwise.
C16_InjectedDependencyChecks ==
    (injected /\ rkind = "require_permission" /\ rpc = "done") =>
        /\ rdetail # "RBAC dependency not initialized"
        /\ ruser = "none" => rstatus = 401
        /\ (HasUserId(ruser) /\ rdetail = "Permission denied") => rstatus = 403
        /\ (HasUserId(ruser) /\ rgranted /\ rdetail # "DBError")
              => rdetail = "True"

\* the lookup that obtained a connection is over
LookupOver == rpc \in {"raise", "return", "endpoint", "done"}

\* C19: a connection obtained by a lookup is released exactly once on every
\* way out, also when the query raised: by pool.release when it came from
\* the pool, by close when it was opened for the call; no query runs on a
\* released connection.
C19_ConnectionReleasedOnce ==
    /\ poolReleases + closes <= 1
    /\ ~usedAfterRelease
    /\ rpc = "query" => connLive /\ connFrom # "none"
    /\ LookupOver =>
          /\ ~connLive
          /\ connFrom = "pool" => poolReleases = 1 /\ closes = 0
          /\ connFrom = "oneoff" => closes = 1 /\ poolReleases = 0
          /\ connFrom = "none" => closes = 0 /\ poolReleases = 0

C19_Witness ==
    /\ rpc = "raise"
    /\ rkind = "roles"
    /\ qraised
    /\ connFrom = "pool" /\ poolReleases = 1 /\ closes = 0

\* C20: the endpoint wrapped by requires_permission(p) is invoked only when
\* a Request was found, current_user is set, a user id is present and the
\* lookup answered true; a call failing the first, second, third or fourth
\* of these ends with 500, 401, 401, 403 in that order of precedence
\* without invoking the endpoint; the lookup runs only when the first three
\* hold.
C20_DecoratorOrder ==
    rkind = "decorator" =>
        LET found == rreq # "none"
            userSet == ruser \notin {"none", "emptydict"}
            idPresent == ruser \in {"obj_id", "dict_id"}
            looked == \/ rpc \in {"getconn", "query", "release", "raise",
                                   "return", "endpoint"}
                      \/ lookups > 0
                      \/ connFrom # "none"
        IN  /\ looked => found /\ userSet /\ idPresent
            /\ (endpointInvoked \/ rpc = "endpoint") =>
                  /\ found /\ userSet /\ idPresent /\ rgranted
                  /\ lookups = 1 /\ ~qraised /\ rstatus = 0
            /\ rpc = "done" =>
                  /\ ~found =>
                        /\ rstatus = 500
                        /\ rdetail = "No Request found for RBAC check"
                        /\ ~endpointInvoked /\ ~looked
                  /\ (found /\ ~userSet) =>
                        /\ rstatus = 401 /\ rdetail = "Not authenticated"
                        /\ ~endpointInvoked /\ ~looked
                  /\ (found /\ userSet /\ ~idPresent) =>
                        /\ rstatus = 401 /\ rdetail = "Invalid user"
                        /\ ~endpointInvoked /\ ~looked
                  /\ (found /\ userSet /\ idPresent /\ lookups = 1
                        /\ ~qraised /\ ~rgranted) =>
                        /\ rstatus = 403 /\ rdetail = "Permission denied"
                        /\ ~endpointInvoked

C20_Witness ==
    /\ rkind = "decorator"
    /\ rpc = "done"
    /\ endpointInvoked
    /\ rreq = "kwargs" /\ ruser = "dict_id" /\ rgranted
    /\ lookups = 1

====
